---- MODULE Spec2Model ----
(***************************************************************************)
(* A model of thalesians/tsa/processes.py: the process hierarchy, the      *)
(* single-slot memo of MarkovProcess.propagatedistr, WienerProcess and     *)
(* OrnsteinUhlenbeckProcess with its two matrix-exponential caches, the    *)
(* two constructors and WienerProcess.__eq__.                              *)
(*                                                                         *)
(* Numbers are integers (the inputs are integer valued, so the float       *)
(* arithmetic of the program is exact on them).  Matrix exponentials and   *)
(* the quantities derived from them are symbolic terms that record which   *)
(* matrix and which timedelta they were computed for, and their shape.     *)
(* An exception is a return record whose kind is the exception's name.     *)
(***************************************************************************)
EXTENDS Integers, Sequences, FiniteSets, TLC

VARIABLES
    proc,       \* the process instance's immutable parameters
    memo,       \* MarkovProcess.__cachedtime/__cachedtime0/__cacheddistr0/__cacheddistr
    cache,      \* OrnsteinUhlenbeckProcess.__cachedmeanreversionfactor... (4 fields)
    last,       \* the last completed call: arguments, result, what it invoked
    chain,      \* registers of a caller that evaluates both sides of additivity
    threads,    \* per thread: where it is in meanreversionfactor, its timedelta, result
    mode,       \* how the threads' calls are arranged: shared, serialized, own
    caches,     \* per instance: the meanreversionfactor cache the threads work on
    objs        \* the objects a caller has constructed, by the name it gave them

parked == <<threads, mode, caches, objs>>

vars == <<proc, memo, cache, last, chain, threads, mode, caches, objs>>

----------------------------------------------------------------------------
(* Bounds of the model *)

MaxTime == 1
MaxDay == 1
MaxChainTime == 2
MaxDim == 2

(* timeunit=dt.timedelta(days=1), in seconds *)
TimeUnitSeconds == 86400

----------------------------------------------------------------------------
(* Values *)

None == [kind |-> "None"]

Raise(e) == [kind |-> e]

Num(v) == [kind |-> "num", v |-> v]

DateTime(d) == [kind |-> "datetime", v |-> d * TimeUnitSeconds]

NumTimes == {Num(v) : v \in 0..MaxTime}

DateTimes == {DateTime(d) : d \in 0..MaxDay}

ChainTimes == {Num(v) : v \in 0..MaxChainTime}

Times == NumTimes \cup DateTimes

\* time - time0: numbers subtract, datetimes give a dt.timedelta, a mix raises
Sub(time, time0) ==
    IF time.kind = "num" /\ time0.kind = "num" THEN Num(time.v - time0.v)
    ELSE IF time.kind = "datetime" /\ time0.kind = "datetime"
         THEN [kind |-> "timedelta", v |-> time.v - time0.v]
         ELSE Raise("TypeError")

\* if isinstance(timedelta, dt.timedelta):
\*     timedelta = timedelta.total_seconds() / self.__timeunit.total_seconds()
Normalize(timedelta) ==
    IF timedelta.kind = "timedelta" THEN Num(timedelta.v \div TimeUnitSeconds)
    ELSE timedelta

NormalDistr(id, mean, cov) == [kind |-> "NormalDistr", id |-> id, mean |-> mean, cov |-> cov]

\* NormalDistr equality is structural: mean and covariance, not identity
DistrEq(a, b) == a.kind = b.kind /\ (a.kind = "NormalDistr" => a.mean = b.mean /\ a.cov = b.cov)

\* the distributions a caller holds before any call: objects d1 and d2 are equal
\* by value and distinct objects
BaseDistrs == {NormalDistr("d1", 0, 0), NormalDistr("d2", 0, 0), NormalDistr("d3", 1, 1)}

\* an object a call creates is none of the caller's
New(mean, cov) == NormalDistr("new", mean, cov)

RECURSIVE SumSq(_)
SumSq(s) == IF s = <<>> THEN 0 ELSE Head(s) * Head(s) + SumSq(Tail(s))

----------------------------------------------------------------------------
(* numpy arrays: a shape and the elements in row-major order *)

Array(shape, v) == [kind |-> "ndarray", shape |-> shape, v |-> v, copy |-> FALSE]

Scalar(x) == Array(<<>>, <<x>>)

Arr1(v) == Array(<<Len(v)>>, v)

Arr2(r, c, v) == Array(<<r, c>>, v)

\* npu.tondim2(x, ndim1tocol=True, copy=...): a scalar becomes 1 x 1, a 1-d array
\* of n elements an n x 1 column, a 2-d array stays; the elements are the same; a
\* new array when copy is asked for or when x was not 2-d already
tondim2(x, copy) ==
    [kind |-> "ndarray",
     shape |-> IF Len(x.shape) = 0 THEN <<1, 1>>
               ELSE IF Len(x.shape) = 1 THEN <<x.shape[1], 1>>
               ELSE x.shape,
     v |-> x.v,
     copy |-> copy \/ Len(x.shape) # 2]

\* npu.nrow, npu.ncol
nrow(a) == a.shape[1]

ncol(a) == a.shape[2]

Fill(n, x) == [i \in 1..n |-> x]

\* npu.colof(n, 0.)
colof(n, x) == Arr2(n, 1, Fill(n, x))

\* np.eye(n), with its elements
eye(n) == Arr2(n, n, [k \in 1..(n * n) |-> IF ((k - 1) \div n) = ((k - 1) % n) THEN 1 ELSE 0])

\* npc.checkcol, npc.checknrow, npc.checksquare: the conditions they insist on
checkcol(a) == ncol(a) = 1

checknrow(a, n) == nrow(a) = n

checksquare(a) == nrow(a) = ncol(a)

----------------------------------------------------------------------------
(* numpy shapes *)

\* numpy broadcasting of two 2-d shapes: each axis must agree or be 1
Broadcastable(sa, sb) ==
    \A i \in 1..2 : sa[i] = sb[i] \/ sa[i] = 1 \/ sb[i] = 1

Max(a, b) == IF a >= b THEN a ELSE b

BroadcastShape(sa, sb) == <<Max(sa[1], sb[1]), Max(sa[2], sb[2])>>

\* np.dot of two 2-d arrays is defined when the inner dimensions agree
DotOk(sa, sb) == sa[2] = sb[1]

DotShape(sa, sb) == <<sa[1], sb[2]>>

\* npu.kronsum(a, b) of square n x n matrices is n^2 x n^2
KronsumShape(sa, sb) == <<sa[1] * sb[1], sa[2] * sb[2]>>

\* npu.vec stacks the columns of an r x c matrix into an (r*c) x 1 column
VecShape(sa) == <<sa[1] * sa[2], 1>>

IsRaise(r) == r.kind \in {"TypeError", "ValueError", "LinAlgError", "NotImplementedError",
                          "DimensionError"}

\* la.expm(m * (-timedelta)): defined for a numeric timedelta; the product with a
\* dt.timedelta is not a numeric matrix and the call raises
expm(of, shape, timedelta) ==
    IF timedelta.kind = "num"
    THEN [kind |-> "expm", of |-> of, td |-> timedelta.v, shape |-> shape]
    ELSE Raise("TypeError")

----------------------------------------------------------------------------
(* the constructors *)

\* mutant: the row count of mean is not checked against processdim
WienerInitNoMeanRows(mean, vol) ==
    LET dflt == mean = None /\ vol = None
        mean1 == IF dflt THEN Scalar(0) ELSE mean
        vol1 == IF dflt THEN Scalar(1) ELSE vol
        m == IF mean1 # None THEN tondim2(mean1, TRUE) ELSE None
        v == IF vol1 # None THEN tondim2(vol1, TRUE) ELSE None
        processdim == IF vol1 # None THEN nrow(v) ELSE nrow(m)
        m2 == IF m = None THEN colof(processdim, 0) ELSE m
        v2 == IF v = None THEN eye(processdim) ELSE v
    IN  IF ~checkcol(m2) THEN Raise("DimensionError")
        ELSE IF ~checknrow(v2, processdim) THEN Raise("DimensionError")
        ELSE [kind |-> "object", cls |-> "WienerProcess", processdim |-> processdim,
              noisedim |-> ncol(v2),
              mean |-> m2, vol |-> v2]

\* WienerProcess.__init__(mean, vol): the object, or the error a check raises
WienerProcess_init(mean, vol) ==
    LET dflt == mean = None /\ vol = None
        mean1 == IF dflt THEN Scalar(0) ELSE mean
        vol1 == IF dflt THEN Scalar(1) ELSE vol
        m == IF mean1 # None THEN tondim2(mean1, TRUE) ELSE None
        v == IF vol1 # None THEN tondim2(vol1, TRUE) ELSE None
        processdim == IF vol1 # None THEN nrow(v) ELSE nrow(m)
        m2 == IF m = None THEN colof(processdim, 0) ELSE m
        v2 == IF v = None THEN eye(processdim) ELSE v
    IN  IF ~checkcol(m2) THEN Raise("DimensionError")
        ELSE IF ~checknrow(m2, processdim) THEN Raise("DimensionError")
        ELSE IF ~checknrow(v2, processdim) THEN Raise("DimensionError")
        ELSE [kind |-> "object", cls |-> "WienerProcess", processdim |-> processdim,
              noisedim |-> ncol(v2),
              mean |-> m2, vol |-> v2]

\* OrnsteinUhlenbeckProcess.__init__(transition, mean, vol): the object, or the
\* error a check raises, or the error of np.linalg.inv when transitionx2 is singular
OrnsteinUhlenbeckProcess_init(transition, mean, vol, singular) ==
    LET dflt == transition = None /\ mean = None /\ vol = None
        transition1 == IF dflt THEN Scalar(1) ELSE transition
        mean1 == IF dflt THEN Scalar(0) ELSE mean
        vol1 == IF dflt THEN Scalar(1) ELSE vol
        t == IF transition1 # None THEN tondim2(transition1, TRUE) ELSE None
        m == IF mean1 # None THEN tondim2(mean1, TRUE) ELSE None
        v == IF vol1 # None THEN tondim2(vol1, TRUE) ELSE None
        processdim == IF vol1 # None THEN nrow(v)
                      ELSE IF mean1 # None THEN nrow(m)
                      ELSE nrow(t)
        t2 == IF t = None THEN eye(processdim) ELSE t
        m2 == IF m = None THEN colof(processdim, 0) ELSE m
        v2 == IF v = None THEN eye(processdim) ELSE v
    IN  IF ~checksquare(t2) THEN Raise("DimensionError")
        ELSE IF ~checknrow(t2, processdim) THEN Raise("DimensionError")
        ELSE IF ~checkcol(m2) THEN Raise("DimensionError")
        ELSE IF ~checknrow(m2, processdim) THEN Raise("DimensionError")
        ELSE IF ~checknrow(v2, processdim) THEN Raise("DimensionError")
        ELSE IF singular THEN Raise("LinAlgError")
        ELSE [kind |-> "object", cls |-> "OrnsteinUhlenbeckProcess",
              processdim |-> processdim, noisedim |-> ncol(v2), transition |-> t2, mean |-> m2, vol |-> v2]

----------------------------------------------------------------------------
(* OrnsteinUhlenbeckProcess *)

\* instances with a square vol: noisedim = ncol(vol) = processdim
OUProcesses ==
    {OrnsteinUhlenbeckProcess_init(None, None, eye(d), FALSE) : d \in 1..MaxDim}

TransitionShape(self) == <<self.processdim, self.processdim>>

\* self.__transitionx2 = npu.kronsum(self.__transition, self.__transition)
Transitionx2Shape(self) == KronsumShape(TransitionShape(self), TransitionShape(self))

\* self.__cov = np.dot(self.__vol, self.__vol.T); self.__covvec = npu.vec(self.__cov)
CovvecShape(self) == VecShape(<<self.processdim, self.processdim>>)

EmptyCache ==
    [cachedmeanreversionfactor |-> None,
     cachedmeanreversionfactortimedelta |-> None,
     cachedmeanreversionfactorsquared |-> None,
     cachedmeanreversionfactorsquaredtimedelta |-> None]

meanreversionfactor(self, c, timedelta) ==
    LET Computed(c1, e) ==
            IF IsRaise(e) THEN [cache |-> c1, ret |-> e, computed |-> TRUE]
            ELSE [cache |-> [c1 EXCEPT !.cachedmeanreversionfactor = e], ret |-> e,
                  computed |-> TRUE]
    IN  IF c.cachedmeanreversionfactortimedelta = None
           \/ c.cachedmeanreversionfactortimedelta # timedelta
        THEN Computed([c EXCEPT !.cachedmeanreversionfactortimedelta = timedelta],
                      expm("transition", TransitionShape(self), timedelta))
        ELSE [cache |-> c, ret |-> c.cachedmeanreversionfactor, computed |-> FALSE]

meanreversionfactorsquared(self, c, timedelta) ==
    LET Computed(c1, e) ==
            IF IsRaise(e) THEN [cache |-> c1, ret |-> e, computed |-> TRUE]
            ELSE [cache |-> [c1 EXCEPT !.cachedmeanreversionfactorsquared = e], ret |-> e,
                  computed |-> TRUE]
    IN  IF c.cachedmeanreversionfactorsquaredtimedelta = None
           \/ c.cachedmeanreversionfactorsquaredtimedelta # timedelta
        THEN Computed([c EXCEPT !.cachedmeanreversionfactorsquaredtimedelta = timedelta],
                      expm("transitionx2", Transitionx2Shape(self), timedelta))
        ELSE [cache |-> c, ret |-> c.cachedmeanreversionfactorsquared, computed |-> FALSE]

\* np.eye(self.processdim) - m : None is no operand, the shapes must broadcast
EyeMinus(self, m) ==
    IF m.kind = "None" THEN Raise("TypeError")
    ELSE IF ~Broadcastable(eye(self.processdim).shape, m.shape) THEN Raise("ValueError")
    ELSE [kind |-> "eyeminus", eye |-> self.processdim, of |-> m,
          shape |-> BroadcastShape(eye(self.processdim).shape, m.shape)]

noisecovariance(self, c, timedelta) ==
    LET Dots(r, eyeminusmrfsquared) ==
            IF IsRaise(eyeminusmrfsquared)
            THEN [cache |-> r.cache, ret |-> eyeminusmrfsquared]
            ELSE IF ~DotOk(Transitionx2Shape(self), eyeminusmrfsquared.shape)
                    \/ ~DotOk(DotShape(Transitionx2Shape(self), eyeminusmrfsquared.shape),
                              CovvecShape(self))
            THEN [cache |-> r.cache, ret |-> Raise("ValueError")]
            ELSE [cache |-> r.cache,
                  ret |-> [kind |-> "noisecov",
                           shape |-> <<self.processdim, self.processdim>>,
                           eyeminusmrfsquared |-> eyeminusmrfsquared]]
        Minus(r) ==
            IF IsRaise(r.ret) THEN [cache |-> r.cache, ret |-> r.ret]
            ELSE Dots(r, EyeMinus(self, r.ret))
    IN  Minus(meanreversionfactorsquared(self, c, timedelta))

\* m = np.dot(mrf, value0) + np.dot(eyeminusmrf, self.__mean), as a term
OUMean(mrf, value0) == [kind |-> "oumean", mrf |-> mrf, value0 |-> value0]

OrnsteinUhlenbeckProcess_propagatedistrimpl(self, c, timedelta, distr0) ==
    LET Distr(r1, r2) ==
            IF IsRaise(r2.ret) THEN r2
            ELSE [cache |-> r2.cache,
                  ret |-> New(OUMean(r1.ret, distr0.mean),
                              [kind |-> "oucov", mrf |-> r1.ret, cov0 |-> distr0.cov,
                               noisecov |-> r2.ret])]
        Cov(r1, eyeminusmrf) ==
            IF IsRaise(eyeminusmrf) THEN [cache |-> r1.cache, ret |-> eyeminusmrf]
            ELSE Distr(r1, noisecovariance(self, r1.cache, timedelta))
        Mean(r1) ==
            IF IsRaise(r1.ret) THEN [cache |-> r1.cache, ret |-> r1.ret]
            ELSE Cov(r1, EyeMinus(self, r1.ret))
    IN  Mean(meanreversionfactor(self, c, timedelta))

----------------------------------------------------------------------------
(* WienerProcess *)

WienerProcesses ==
    {WienerProcess_init(Scalar(3), Arr2(1, n, Fill(n, 1))) : n \in 1..2}

\* self.__cov = np.dot(self.__vol, self.__vol.T), vol being 1 x noisedim
WienerCov(self) == SumSq(self.vol.v)

\* mutant: the covariance grows by cov whatever the elapsed time
WienerUnscaledCov(self, c, timedelta, distr0) ==
    [cache |-> c,
     ret |-> New(distr0.mean + self.mean.v[1] * timedelta.v,
                             distr0.cov + WienerCov(self))]

WienerProcess_propagatedistrimpl(self, c, timedelta, distr0) ==
    [cache |-> c,
     ret |-> New(distr0.mean + self.mean.v[1] * timedelta.v,
                             distr0.cov + timedelta.v * WienerCov(self))]

----------------------------------------------------------------------------
(* MarkovProcess *)

EmptyMemo ==
    [cachedtime |-> None, cachedtime0 |-> None, cacheddistr0 |-> None, cacheddistr |-> None]

\* the subclass hook, by dynamic dispatch
propagatedistrimpl(self, c, timedelta, distr0) ==
    IF self.cls = "WienerProcess"
    THEN WienerProcess_propagatedistrimpl(self, c, timedelta, distr0)
    ELSE OrnsteinUhlenbeckProcess_propagatedistrimpl(self, c, timedelta, distr0)

\* mutant: the identity shortcut is missing
SameTimeNever(time, time0) == FALSE

\* if time == time0: return distr0
SameTime(time, time0) == time = time0

\* mutant: the memo is keyed on time and distr0 alone
MemoMissNoTime0(m, time, time0, distr0) ==
    \/ m.cachedtime = None
    \/ m.cachedtime # time
    \/ ~DistrEq(m.cacheddistr0, distr0)

\* self.__cachedtime is None or self.__cachedtime != time or
\* self.__cachedtime0 != time0 or self.__cacheddistr0 != distr0
MemoMiss(m, time, time0, distr0) ==
    \/ m.cachedtime = None
    \/ m.cachedtime # time
    \/ m.cachedtime0 # time0
    \/ ~DistrEq(m.cacheddistr0, distr0)

propagatedistr(self, m, c, time, time0, distr0) ==
    IF SameTime(time, time0)
    THEN [memo |-> m, cache |-> c, ret |-> distr0, impl |-> 0]
    ELSE IF MemoMiss(m, time, time0, distr0)
    THEN LET Stored(r) ==
                 IF IsRaise(r.ret)
                 THEN [memo |-> m, cache |-> r.cache, ret |-> r.ret, impl |-> 1]
                 ELSE [memo |-> [cacheddistr |-> r.ret, cachedtime |-> time,
                                 cachedtime0 |-> time0, cacheddistr0 |-> distr0],
                       cache |-> r.cache, ret |-> r.ret, impl |-> 1]
             Missed(timedelta) ==
                 IF IsRaise(timedelta)
                 THEN [memo |-> m, cache |-> c, ret |-> timedelta, impl |-> 0]
                 ELSE Stored(propagatedistrimpl(self, c, Normalize(timedelta), distr0))
         IN  Missed(Sub(time, time0))
    ELSE [memo |-> m, cache |-> c, ret |-> m.cacheddistr, impl |-> 0]

----------------------------------------------------------------------------
(* SolvedItoMarkovProcess *)

\* what a caller passes as value0: a 1-d array of one element
Values == {Arr1(<<x>>) : x \in 0..1}

\* what a caller passes as variate
Variates == {Arr1(<<1>>)}

\* distrs.NormalDistr.creatediracdelta(value0): mean value0, zero covariance
creatediracdelta(value0) == New(value0.v[1], 0)

\* np.linalg.cholesky raises on a matrix that is not positive definite
cholesky(cov) == IF cov > 0 THEN [kind |-> "cholesky", of |-> cov] ELSE Raise("LinAlgError")

\* lines 93-96: the state as a Dirac delta, propagated and sampled by Cholesky
PropagateViaDistr(self, m, c, time, variate, time0, value0) ==
    LET Sampled(r, l, var) ==
            [memo |-> r.memo, cache |-> r.cache,
             ret |-> IF IsRaise(l) THEN l
                     ELSE [kind |-> "sample", mean |-> r.ret.mean, chol |-> l,
                           variate |-> var.v],
             impl |-> r.impl, pd |-> 1]
        Propagated(r, var) ==
            IF IsRaise(r.ret)
            THEN [memo |-> r.memo, cache |-> r.cache, ret |-> r.ret, impl |-> r.impl,
                  pd |-> 1]
            ELSE Sampled(r, cholesky(r.ret.cov), var)
    IN  Propagated(propagatedistr(self, m, c, time, time0,
                                  creatediracdelta(tondim2(value0, FALSE))),
                   tondim2(variate, FALSE))

NoCallResult(m, c, ret) ==
    [memo |-> m, cache |-> c, ret |-> ret, impl |-> 0, pd |-> 0]

\* mutant: the identity shortcut is taken before the dimensions are compared
TimeFirstPropagate(self, m, c, time, variate, time0, value0) ==
    IF time = time0 THEN NoCallResult(m, c, tondim2(value0, TRUE))
    ELSE IF self.noisedim # self.processdim
    THEN NoCallResult(m, c, Raise("NotImplementedError"))
    ELSE PropagateViaDistr(self, m, c, time, variate, time0, value0)

SolvedItoMarkovProcess_propagate(self, m, c, time, variate, time0, value0) ==
    IF self.noisedim # self.processdim
    THEN NoCallResult(m, c, Raise("NotImplementedError"))
    ELSE IF time = time0 THEN NoCallResult(m, c, tondim2(value0, TRUE))
    ELSE PropagateViaDistr(self, m, c, time, variate, time0, value0)

----------------------------------------------------------------------------
(* Specification Spec: one instance with WienerProcess parameters, called     *)
(* through MarkovProcess.propagatedistr and the generic propagate             *)

NoCall == [op |-> "none"]

\* the variables of the other specifications, at rest
Parked ==
    /\ threads = <<>>
    /\ mode = "none"
    /\ caches = <<>>
    /\ objs = <<>>

IdleChain == [st |-> "idle"]

Init ==
    /\ proc \in WienerProcesses
    /\ memo = EmptyMemo
    /\ cache = EmptyCache
    /\ last = NoCall
    /\ chain = IdleChain
    /\ Parked

Apply_propagatedistr(r, time, time0, distr0) ==
    /\ memo' = r.memo
    /\ cache' = r.cache
    /\ last' = [op |-> "propagatedistr", time |-> time, time0 |-> time0, arg |-> distr0,
                ret |-> r.ret, impl |-> r.impl, pd |-> 1, pre |-> memo,
                precache |-> cache]

Call_propagatedistr ==
    /\ \E time \in Times, time0 \in Times, distr0 \in BaseDistrs :
         Apply_propagatedistr(propagatedistr(proc, memo, cache, time, time0, distr0),
                              time, time0, distr0)
    /\ UNCHANGED <<proc, chain, parked>>

Call_propagate ==
    /\ \E time \in Times, time0 \in Times, value0 \in Values, variate \in Variates :
         LET Returned(r) ==
                 /\ memo' = r.memo
                 /\ cache' = r.cache
                 /\ last' = [op |-> "propagate", time |-> time, time0 |-> time0,
                             arg |-> value0, ret |-> r.ret, impl |-> r.impl, pd |-> r.pd,
                             pre |-> memo, precache |-> cache]
         IN  Returned(SolvedItoMarkovProcess_propagate(proc, memo, cache, time, variate,
                                                       time0, value0))
    /\ UNCHANGED <<proc, chain, parked>>

Next ==
    \/ Call_propagatedistr
    \/ Call_propagate

Spec == Init /\ [][Next]_vars

----------------------------------------------------------------------------
(* Specification SpecChain: a caller picks t0 < t1 < t2 and d0, then evaluates *)
(* propagatedistr(t2, t1, propagatedistr(t1, t0, d0)) and                      *)
(* propagatedistr(t2, t0, d0) in either order, with other calls before and     *)
(* in between                                                                  *)

\* the distributions the caller can start from: its own, or one just returned
ChainInputs ==
    BaseDistrs
    \cup (IF last.op # "none" /\ last.ret.kind = "NormalDistr" THEN {last.ret} ELSE {})

\* the caller keeps what the call returned
Apply_chain(r, time, time0, distr0) ==
    /\ memo' = r.memo
    /\ cache' = r.cache
    /\ last' = [op |-> "propagatedistr", ret |-> r.ret, impl |-> r.impl]

ChainOther ==
    /\ \E time \in ChainTimes, time0 \in ChainTimes, distr0 \in BaseDistrs :
         Apply_chain(propagatedistr(proc, memo, cache, time, time0, distr0),
                     time, time0, distr0)
    /\ UNCHANGED <<proc, chain, parked>>

ChainStart ==
    /\ chain.st = "idle"
    /\ \E t0 \in ChainTimes, t1 \in ChainTimes, t2 \in ChainTimes, d0 \in ChainInputs :
         /\ t0.v < t1.v /\ t1.v < t2.v
         /\ chain' = [st |-> "started", t0 |-> t0, t1 |-> t1, t2 |-> t2, d0 |-> d0,
                      mid |-> None, two |-> None, one |-> None, hits |-> 0]
    /\ UNCHANGED <<proc, memo, cache, last, parked>>

ChainLeg1 ==
    /\ chain.st = "started" /\ chain.mid = None
    /\ LET r == propagatedistr(proc, memo, cache, chain.t1, chain.t0, chain.d0)
       IN  /\ Apply_chain(r, chain.t1, chain.t0, chain.d0)
           /\ chain' = [chain EXCEPT !.mid = r.ret, !.hits = @ + (1 - r.impl)]
    /\ UNCHANGED <<proc, parked>>

ChainLeg2 ==
    /\ chain.st = "started" /\ chain.mid # None /\ chain.two = None
    /\ LET r == propagatedistr(proc, memo, cache, chain.t2, chain.t1, chain.mid)
       IN  /\ Apply_chain(r, chain.t2, chain.t1, chain.mid)
           /\ chain' = [chain EXCEPT !.two = r.ret, !.hits = @ + (1 - r.impl)]
    /\ UNCHANGED <<proc, parked>>

ChainDirect ==
    /\ chain.st = "started" /\ chain.one = None
    /\ LET r == propagatedistr(proc, memo, cache, chain.t2, chain.t0, chain.d0)
       IN  /\ Apply_chain(r, chain.t2, chain.t0, chain.d0)
           /\ chain' = [chain EXCEPT !.one = r.ret, !.hits = @ + (1 - r.impl)]
    /\ UNCHANGED <<proc, parked>>

NextChain ==
    \/ ChainOther
    \/ ChainStart
    \/ ChainLeg1
    \/ ChainLeg2
    \/ ChainDirect

SpecChain == Init /\ [][NextChain]_vars

----------------------------------------------------------------------------
(* Claims about MarkovProcess.propagatedistr and the generic propagate *)

\* what a call of _propagatedistrimpl with the last call's own arguments returns
Uncached ==
    LET timedelta == Sub(last.time, last.time0) IN
    IF IsRaise(timedelta) THEN timedelta
    ELSE propagatedistrimpl(proc, cache, Normalize(timedelta), last.arg).ret

\* C1: every propagatedistr call with time != time0 returns a distribution equal
\* to _propagatedistrimpl(normalize(time - time0), distr0) for its own arguments
\* (or fails as the subtraction does), and it returns the memoized object without
\* calling the hook only when time, time0 and distr0 equal the memo's keys.
C1_MemoInvisible ==
    (last.op = "propagatedistr" /\ last.time # last.time0) =>
        /\ IF IsRaise(Uncached) THEN last.ret = Uncached
           ELSE last.ret.kind = "NormalDistr" /\ DistrEq(last.ret, Uncached)
        /\ (last.impl = 0 /\ ~IsRaise(last.ret)) =>
              /\ last.pre.cachedtime = last.time
              /\ last.pre.cachedtime0 = last.time0
              /\ DistrEq(last.pre.cacheddistr0, last.arg)
              /\ last.ret = last.pre.cacheddistr

\* a memo hit on a distr0 that is another object than the one memoized
C1_Witness ==
    /\ last.op = "propagatedistr" /\ last.time # last.time0
    /\ last.impl = 0 /\ last.ret.kind = "NormalDistr"
    /\ last.arg.id # last.pre.cacheddistr0.id

\* C4: propagatedistr with time == time0 returns the very object distr0, does not
\* call _propagatedistrimpl and leaves the four memo fields as they were.
C4_IdentityFrame ==
    (last.op = "propagatedistr" /\ last.time = last.time0) =>
        /\ last.ret = last.arg
        /\ last.impl = 0
        /\ memo = last.pre

\* an identity call on a filled memo, with a distr0 that differs from the memoized one
C4_Witness ==
    /\ last.op = "propagatedistr" /\ last.time = last.time0
    /\ last.pre.cachedtime # None
    /\ ~DistrEq(last.pre.cacheddistr0, last.arg)
    /\ last.pre.cacheddistr.id # last.arg.id

\* C5: with noisedim != processdim every generic propagate call raises
\* NotImplementedError before propagatedistr is called, the memo unchanged; with
\* noisedim == processdim and time == time0 it returns value0's elements.
C5_Unsupported ==
    (last.op = "propagate") =>
        /\ (proc.noisedim # proc.processdim) =>
              /\ last.ret.kind = "NotImplementedError"
              /\ last.pd = 0 /\ last.impl = 0
              /\ memo = last.pre
        /\ (proc.noisedim = proc.processdim /\ last.time = last.time0) =>
              /\ last.ret.kind = "ndarray" /\ last.ret.v = last.arg.v
              /\ last.pd = 0
              /\ memo = last.pre

\* a failed propagate with equal times on an instance whose memo is filled
C5_Witness ==
    /\ last.op = "propagate" /\ proc.noisedim # proc.processdim
    /\ last.time = last.time0
    /\ last.pre.cachedtime # None

\* C9: for t0 < t1 < t2, propagatedistr(t2, t1, propagatedistr(t1, t0, d0)) and
\* propagatedistr(t2, t0, d0) have the same mean and covariance,
\* d0.mean + mean*(t2 - t0) and d0.cov + (t2 - t0)*cov.
C9_Additive ==
    (chain.st = "started" /\ chain.two # None /\ chain.one # None) =>
        LET elapsed == chain.t2.v - chain.t0.v IN
        /\ chain.two.kind = "NormalDistr" /\ chain.one.kind = "NormalDistr"
        /\ chain.two.mean = chain.d0.mean + proc.mean.v[1] * elapsed
        /\ chain.one.mean = chain.d0.mean + proc.mean.v[1] * elapsed
        /\ chain.two.cov = chain.d0.cov + elapsed * WienerCov(proc)
        /\ chain.one.cov = chain.d0.cov + elapsed * WienerCov(proc)

\* both sides evaluated from a distribution an earlier call returned, one of the
\* three calls answered from the memo
C9_Witness ==
    /\ chain.st = "started" /\ chain.two # None /\ chain.one # None
    /\ chain.d0.id = "new" /\ chain.d0.cov # 0
    /\ chain.hits > 0

----------------------------------------------------------------------------
(* Specification SpecOU: one OrnsteinUhlenbeckProcess instance, its five      *)
(* operations called one after the other                                    *)

\* lines 257-266, up to the Cholesky factor of the noise covariance
OrnsteinUhlenbeckProcess_propagate(self, c, time, variate, time0, value0) ==
    IF time = time0 THEN [cache |-> c, ret |-> tondim2(value0, TRUE)]
    ELSE LET v0 == tondim2(value0, FALSE)
             var == tondim2(variate, FALSE)
             timedelta == Sub(time, time0)
             r1 == meanreversionfactor(self, c, timedelta)
             eyeminusmrf == EyeMinus(self, r1.ret)
             r2 == noisecovariance(self, r1.cache, timedelta)
         IN  IF IsRaise(timedelta) THEN [cache |-> c, ret |-> timedelta]
             ELSE IF IsRaise(r1.ret) THEN [cache |-> r1.cache, ret |-> r1.ret]
             ELSE IF IsRaise(eyeminusmrf) THEN [cache |-> r1.cache, ret |-> eyeminusmrf]
             ELSE IF IsRaise(r2.ret) THEN r2
             ELSE [cache |-> r2.cache,
                   ret |-> [kind |-> "sample", mean |-> OUMean(r1.ret, v0.v),
                            chol |-> [kind |-> "cholesky", of |-> r2.ret],
                            variate |-> var.v]]

\* the timedelta arguments of the direct calls: every difference of two times
Deltas == {Sub(t, t0) : t \in Times, t0 \in Times} \ {Raise("TypeError")}

\* the distribution the caller propagates
OUDistrs == {d \in BaseDistrs : d.id = "d3"}

InitOU ==
    /\ proc \in OUProcesses
    /\ memo = EmptyMemo
    /\ cache = EmptyCache
    /\ last = NoCall
    /\ chain = IdleChain
    /\ Parked

Call_meanreversionfactor ==
    /\ \E timedelta \in Deltas :
         LET r == meanreversionfactor(proc, cache, timedelta) IN
         /\ cache' = r.cache
         /\ last' = [op |-> "meanreversionfactor", td |-> timedelta, ret |-> r.ret,
                     computed |-> r.computed, pre |-> cache]
    /\ UNCHANGED <<proc, memo, chain, parked>>

Call_meanreversionfactorsquared ==
    /\ \E timedelta \in Deltas :
         LET r == meanreversionfactorsquared(proc, cache, timedelta) IN
         /\ cache' = r.cache
         /\ last' = [op |-> "meanreversionfactorsquared", td |-> timedelta, ret |-> r.ret,
                     computed |-> r.computed, pre |-> cache]
    /\ UNCHANGED <<proc, memo, chain, parked>>

Call_noisecovariance ==
    /\ \E timedelta \in Deltas :
         LET r == noisecovariance(proc, cache, timedelta) IN
         /\ cache' = r.cache
         /\ last' = [op |-> "noisecovariance", td |-> timedelta, ret |-> r.ret]
    /\ UNCHANGED <<proc, memo, chain, parked>>

\* np.linalg.cholesky(c) raises when the noise covariance is not positive
\* definite, which the values of transition and vol decide
Call_OUpropagate ==
    /\ \E time \in Times, time0 \in Times, value0 \in Variates, variate \in Variates,
          posdef \in BOOLEAN :
         LET r == OrnsteinUhlenbeckProcess_propagate(proc, cache, time, variate, time0,
                                                     value0)
         IN  /\ cache' = r.cache
             /\ last' = [op |-> "propagate", time |-> time, time0 |-> time0,
                         ret |-> IF r.ret.kind = "sample" /\ ~posdef
                                 THEN Raise("LinAlgError") ELSE r.ret]
    /\ UNCHANGED <<proc, memo, chain, parked>>

Call_OUpropagatedistr ==
    /\ \E time \in Times, time0 \in Times, distr0 \in OUDistrs :
         LET r == propagatedistr(proc, memo, cache, time, time0, distr0) IN
         /\ memo' = r.memo
         /\ cache' = r.cache
         /\ last' = [op |-> "propagatedistr", time |-> time, time0 |-> time0,
                     ret |-> r.ret]
    /\ UNCHANGED <<proc, chain, parked>>

NextOU ==
    \/ Call_meanreversionfactor
    \/ Call_meanreversionfactorsquared
    \/ Call_noisecovariance
    \/ Call_OUpropagate
    \/ Call_OUpropagatedistr

SpecOU == InitOU /\ [][NextOU]_vars

----------------------------------------------------------------------------
(* Claims about the OrnsteinUhlenbeckProcess caches *)

\* C2: for every processdim d >= 1 and numeric timedelta, noisecovariance returns
\* the d x d matrix unvec(transitionx2inverse * (I - mrfsquared(timedelta)) * covvec, d)
\* with I the identity of transitionx2's d^2 x d^2 shape, and raises nothing.
C2_NoiseCovariance ==
    (last.op = "noisecovariance" /\ last.td.kind = "num") =>
        /\ last.ret.kind = "noisecov"
        /\ last.ret.shape = <<proc.processdim, proc.processdim>>
        /\ last.ret.eyeminusmrfsquared.of =
               expm("transitionx2", Transitionx2Shape(proc), last.td)
        /\ eye(last.ret.eyeminusmrfsquared.eye).shape = Transitionx2Shape(proc)

\* C2 holds on a one-dimensional instance, where d = d^2
C2_OneDim ==
    (last.op = "noisecovariance" /\ last.td.kind = "num" /\ proc.processdim = 1) =>
        /\ last.ret.kind = "noisecov"
        /\ last.ret.shape = <<1, 1>>
        /\ last.ret.eyeminusmrfsquared.of =
               expm("transitionx2", Transitionx2Shape(proc), last.td)

\* C3: after any sequence of calls, meanreversionfactor(timedelta) gives
\* exp(-timedelta * transition) for its own timedelta: the cached object, not
\* recomputed, when the previous meanreversionfactor timedelta was the same, the
\* recomputed value otherwise, never a value cached for another timedelta.
C3_CacheCorrect ==
    (last.op = "meanreversionfactor") =>
        /\ last.ret = expm("transition", TransitionShape(proc), last.td)
        /\ (last.pre.cachedmeanreversionfactortimedelta = last.td) =>
               ~last.computed /\ last.ret = last.pre.cachedmeanreversionfactor
        /\ (last.pre.cachedmeanreversionfactortimedelta # last.td) => last.computed

\* a meanreversionfactor call that returns a matrix computed for another timedelta
C3_StaleReturned ==
    /\ last.op = "meanreversionfactor"
    /\ last.ret.kind = "expm"
    /\ Num(last.ret.td) # last.td

\* C10: whenever a cache's timedelta is not None its factor is the matrix
\* exponential computed for exactly that timedelta; a call whose computation
\* raises leaves the cache as it was.
C10_CacheConsistent ==
    /\ (cache.cachedmeanreversionfactortimedelta # None) =>
           cache.cachedmeanreversionfactor =
               [kind |-> "expm", of |-> "transition", shape |-> TransitionShape(proc),
                td |-> cache.cachedmeanreversionfactortimedelta.v]
    /\ (cache.cachedmeanreversionfactorsquaredtimedelta # None) =>
           cache.cachedmeanreversionfactorsquared =
               [kind |-> "expm", of |-> "transitionx2", shape |-> Transitionx2Shape(proc),
                td |-> cache.cachedmeanreversionfactorsquaredtimedelta.v]
    /\ (last.op \in {"meanreversionfactor", "meanreversionfactorsquared"}
        /\ IsRaise(last.ret)) => cache = last.pre

----------------------------------------------------------------------------
(* Specification SpecThreads: threads calling meanreversionfactor, one source *)
(* line at a time (lines 241-244); the interpreter may switch threads between  *)
(* any two reads or writes of the instance's attributes                       *)

NThreads == 2

Threads == 1..NThreads

Modes == {"shared", "serialized", "own"}

\* the instance a thread calls: its own in mode "own", the one shared otherwise
InstanceOf(t) == IF mode = "own" THEN t ELSE 1

IdleThread == [pc |-> "idle", td |-> None, ret |-> None]

InitThreads ==
    /\ proc \in {o \in OUProcesses : o.processdim = 1}
    /\ memo = EmptyMemo
    /\ cache = EmptyCache
    /\ last = NoCall
    /\ chain = IdleChain
    /\ objs = <<>>
    /\ mode \in Modes
    /\ threads = [t \in Threads |-> IdleThread]
    /\ caches = [i \in Threads |-> EmptyCache]

\* in mode "serialized" the caller lets one call run at a time
MayEnter(t) ==
    mode = "serialized" => \A u \in Threads \ {t} : threads[u].pc \in {"idle", "done"}

\* def meanreversionfactor(self, timedelta):
Enter(t) ==
    /\ threads[t].pc \in {"idle", "done"}
    /\ MayEnter(t)
    /\ \E timedelta \in Deltas :
         threads' = [threads EXCEPT ![t] = [pc |-> "isnone", td |-> timedelta, ret |-> None]]
    /\ UNCHANGED <<proc, memo, cache, last, chain, mode, caches, objs>>

\* line 241, left operand: self.__cachedmeanreversionfactortimedelta is None
CheckNone(t) ==
    /\ threads[t].pc = "isnone"
    /\ threads' = [threads EXCEPT ![t].pc =
           IF caches[InstanceOf(t)].cachedmeanreversionfactortimedelta = None
           THEN "setkey" ELSE "differs"]
    /\ UNCHANGED <<proc, memo, cache, last, chain, mode, caches, objs>>

\* line 241, right operand: self.__cachedmeanreversionfactortimedelta != timedelta
CheckKey(t) ==
    /\ threads[t].pc = "differs"
    /\ threads' = [threads EXCEPT ![t].pc =
           IF caches[InstanceOf(t)].cachedmeanreversionfactortimedelta # threads[t].td
           THEN "setkey" ELSE "return"]
    /\ UNCHANGED <<proc, memo, cache, last, chain, mode, caches, objs>>

\* line 242: self.__cachedmeanreversionfactortimedelta = timedelta
SetKey(t) ==
    /\ threads[t].pc = "setkey"
    /\ caches' = [caches EXCEPT
           ![InstanceOf(t)].cachedmeanreversionfactortimedelta = threads[t].td]
    /\ threads' = [threads EXCEPT ![t].pc = "setvalue"]
    /\ UNCHANGED <<proc, memo, cache, last, chain, mode, objs>>

\* line 243: self.__cachedmeanreversionfactor = la.expm(...), or the call raises
SetValue(t) ==
    /\ threads[t].pc = "setvalue"
    /\ LET e == expm("transition", TransitionShape(proc), threads[t].td) IN
       IF IsRaise(e)
       THEN /\ threads' = [threads EXCEPT ![t].pc = "done", ![t].ret = e]
            /\ UNCHANGED caches
       ELSE /\ caches' = [caches EXCEPT ![InstanceOf(t)].cachedmeanreversionfactor = e]
            /\ threads' = [threads EXCEPT ![t].pc = "return"]
    /\ UNCHANGED <<proc, memo, cache, last, chain, mode, objs>>

\* line 244: return self.__cachedmeanreversionfactor
Return(t) ==
    /\ threads[t].pc = "return"
    /\ threads' = [threads EXCEPT ![t].pc = "done",
                                  ![t].ret = caches[InstanceOf(t)].cachedmeanreversionfactor]
    /\ UNCHANGED <<proc, memo, cache, last, chain, mode, caches, objs>>

NextThreads ==
    \/ \E t \in Threads : Enter(t)
    \/ \E t \in Threads : CheckNone(t)
    \/ \E t \in Threads : CheckKey(t)
    \/ \E t \in Threads : SetKey(t)
    \/ \E t \in Threads : SetValue(t)
    \/ \E t \in Threads : Return(t)

SpecThreads == InitThreads /\ [][NextThreads]_vars

\* thread t's call has returned a value that is not exp(-timedelta * transition)
\* for its own timedelta
WrongReturn(t) ==
    /\ threads[t].pc = "done"
    /\ ~IsRaise(threads[t].ret)
    /\ threads[t].ret # expm("transition", TransitionShape(proc), threads[t].td)

\* C7: unserialized calls on one instance can return a value that is not
\* exp(-timedelta * transition) for the call's own timedelta; with the calls
\* serialized, or an instance per thread, no call ever returns such a value.
C7_SerializedSafe ==
    (mode \in {"serialized", "own"}) => \A t \in Threads : ~WrongReturn(t)

\* the race of C7: a call with a numeric timedelta on the shared instance returns
\* a wrong value (the empty slot, or the matrix of the other thread's timedelta)
C7_Race ==
    /\ mode = "shared"
    /\ \E t \in Threads : WrongReturn(t) /\ threads[t].td.kind = "num"

\* serialized or on instances of their own, calls with a numeric timedelta
\* return the matrix of their own timedelta
C7_SerializedNumeric ==
    (mode \in {"serialized", "own"}) =>
        \A t \in Threads : WrongReturn(t) => threads[t].td.kind # "num"

----------------------------------------------------------------------------
(* construction: one constructor call on arguments of every small shape *)

\* what a caller passes as mean, vol or transition: nothing, a scalar, a 1-d
\* array or a 2-d array
ShapeArgs ==
    {None, Scalar(1)}
        \cup {Arr1(Fill(n, 1)) : n \in 1..MaxDim}
        \cup {Arr2(r, c, Fill(r * c, 1)) : r \in 1..MaxDim, c \in 1..MaxDim}

InitConstruct ==
    /\ proc = None
    /\ memo = EmptyMemo
    /\ cache = EmptyCache
    /\ last = NoCall
    /\ chain = IdleChain
    /\ threads = <<>>
    /\ mode = "none"
    /\ caches = <<>>
    /\ objs = [a |-> None]

\* the caller keeps the object when the constructor returns, nothing when it raises
Constructed(op, transition, mean, vol, r) ==
    /\ last' = [op |-> op, transition |-> transition, mean |-> mean, vol |-> vol, ret |-> r]
    /\ objs' = IF IsRaise(r) THEN objs ELSE [objs EXCEPT !.a = r]
    /\ UNCHANGED <<proc, memo, cache, chain, threads, mode, caches>>

Construct_WienerProcess ==
    /\ last.op = "none"
    /\ \E mean \in ShapeArgs, vol \in ShapeArgs :
        Constructed("WienerProcess", None, mean, vol, WienerProcess_init(mean, vol))

Construct_OrnsteinUhlenbeckProcess ==
    /\ last.op = "none"
    /\ \E transition \in ShapeArgs, mean \in ShapeArgs, vol \in ShapeArgs, singular \in BOOLEAN :
        Constructed("OrnsteinUhlenbeckProcess", transition, mean, vol,
                    OrnsteinUhlenbeckProcess_init(transition, mean, vol, singular))

NextConstruct ==
    \/ Construct_WienerProcess
    \/ Construct_OrnsteinUhlenbeckProcess

SpecConstruct == InitConstruct /\ [][NextConstruct]_vars

\* the shape an argument has as a matrix
Rows(x) == IF Len(x.shape) = 0 THEN 1 ELSE x.shape[1]

Cols(x) == IF Len(x.shape) = 2 THEN x.shape[2] ELSE 1

Supplied(l) == {l.transition, l.mean, l.vol} \ {None}

Inconsistent(l) ==
    \/ \E x \in Supplied(l), y \in Supplied(l) : Rows(x) # Rows(y)
    \/ l.mean # None /\ Cols(l.mean) # 1
    \/ l.transition # None /\ Rows(l.transition) # Cols(l.transition)

ConstructorCalled == last.op \in {"WienerProcess", "OrnsteinUhlenbeckProcess"}

\* C8: a constructor call whose supplied parameters disagree in their row counts,
\* whose mean is not a single column or whose transition is not square raises a
\* dimension error and leaves no object; an object that is constructed has mean
\* processdim x 1, vol processdim x noisedim and transition processdim x processdim
C8_Dimensions ==
    ConstructorCalled =>
        /\ Inconsistent(last) => last.ret = Raise("DimensionError") /\ objs.a = None
        /\ ~IsRaise(last.ret) =>
            /\ objs.a = last.ret
            /\ objs.a.mean.shape = <<objs.a.processdim, 1>>
            /\ objs.a.vol.shape = <<objs.a.processdim, objs.a.noisedim>>
            /\ objs.a.cls = "OrnsteinUhlenbeckProcess" =>
                objs.a.transition.shape = <<objs.a.processdim, objs.a.processdim>>

\* a WienerProcess call with a one-column mean whose rows disagree with vol's
C8_Witness ==
    /\ last.op = "WienerProcess"
    /\ last.mean # None /\ last.vol # None
    /\ Cols(last.mean) = 1
    /\ Rows(last.mean) # Rows(last.vol)
    /\ last.ret = Raise("DimensionError")
    /\ objs.a = None

\* an OrnsteinUhlenbeckProcess built from a vol alone, of more than one dimension
C8_Built ==
    /\ last.op = "OrnsteinUhlenbeckProcess"
    /\ last.transition = None /\ last.mean = None /\ last.vol # None
    /\ objs.a # None
    /\ objs.a.processdim > 1

----------------------------------------------------------------------------
(* equality: two WienerProcess objects, built directly or by a factory, compared *)

MaxVal == 1

EqVals == 0..MaxVal

\* Python's True and False
Bool(b) == [kind |-> "bool", b |-> b]

\* npu.col(x, y): the 2 x 1 column
col(x, y) == Arr2(2, 1, <<x, y>>)

\* distrs.NormalDistr.makevol2d(sd1, sd2, cor), the lower Cholesky factor of the
\* covariance, for a correlation of 0 or 1
makevol2d(sd1, sd2, cor) == Arr2(2, 2, <<sd1, 0, cor * sd2, (1 - cor) * sd2>>)

Isqrt(x) == CHOOSE r \in 0..x : r * r = x

\* distrs.NormalDistr.makevolfromcov(cov), the Cholesky factor, for a diagonal
\* covariance of squares
makevolfromcov(cov) == [cov EXCEPT !.v = [k \in DOMAIN cov.v |-> Isqrt(cov.v[k])]]

\* WienerProcess.create2d
create2d(mean1, mean2, sd1, sd2, cor) ==
    WienerProcess_init(col(mean1, mean2), makevol2d(sd1, sd2, cor))

\* WienerProcess.createfromcov
createfromcov(mean, cov) == WienerProcess_init(mean, makevolfromcov(cov))

\* element (i, j) of a 2-d array stretched by broadcasting
At(x, i, j) ==
    x.v[((IF x.shape[1] = 1 THEN 1 ELSE i) - 1) * x.shape[2]
            + (IF x.shape[2] = 1 THEN 1 ELSE j)]

\* x == y on ndarrays: the array of the elementwise comparisons; when the shapes
\* do not broadcast numpy answers False or raises, depending on its version
ArrayEq(x, y, mismatch) ==
    IF Broadcastable(x.shape, y.shape)
    THEN LET sh == BroadcastShape(x.shape, y.shape)
         IN  [kind |-> "ndarray", shape |-> sh, copy |-> TRUE,
              v |-> [k \in 1..(sh[1] * sh[2]) |->
                        IF At(x, ((k - 1) \div sh[2]) + 1, ((k - 1) % sh[2]) + 1)
                             = At(y, ((k - 1) \div sh[2]) + 1, ((k - 1) % sh[2]) + 1)
                        THEN 1 ELSE 0]]
    ELSE IF mismatch = "raise" THEN Raise("ValueError")
    ELSE Bool(FALSE)

\* bool(x): "True", "False", or "ValueError" for an array of more than one element
Truth(x) ==
    IF x.kind = "bool" THEN (IF x.b THEN "True" ELSE "False")
    ELSE IF x.kind = "ndarray"
    THEN (IF Len(x.v) # 1 THEN "ValueError" ELSE IF x.v[1] = 1 THEN "True" ELSE "False")
    ELSE x.kind

\* x and y: x when x is false, y when x is true, the error when bool(x) raises
And(x, y) ==
    IF IsRaise(x) THEN x
    ELSE IF Truth(x) = "ValueError" THEN Raise("ValueError")
    ELSE IF Truth(x) = "False" THEN x
    ELSE y

\* WienerProcess.__eq__
WienerProcess_eq(self, other, mismatch) ==
    IF other.kind = "object" /\ other.cls = self.cls
    THEN And(ArrayEq(self.mean, other.mean, mismatch), ArrayEq(self.vol, other.vol, mismatch))
    ELSE Bool(FALSE)

Slots == {"a", "b"}

InitEq ==
    /\ proc = None
    /\ memo = EmptyMemo
    /\ cache = EmptyCache
    /\ last = NoCall
    /\ chain = IdleChain
    /\ threads = <<>>
    /\ mode = "none"
    /\ caches = <<>>
    /\ objs = [s \in Slots |-> None]

EqMeans == {Arr1(<<x>>) : x \in EqVals} \cup {Arr1(<<x, y>>) : x \in EqVals, y \in EqVals}

EqVols ==
    {None}
        \cup {Arr2(1, 1, <<x>>) : x \in EqVals}
        \cup {Arr2(1, 2, <<x, y>>) : x \in EqVals, y \in EqVals}
        \cup {Arr2(2, 2, <<x, 0, y, z>>) : x \in EqVals, y \in EqVals, z \in EqVals}

\* diagonal covariances of squares
EqCovs ==
    {Arr2(1, 1, <<x * x>>) : x \in EqVals}
        \cup {Arr2(2, 2, <<x * x, 0, 0, y * y>>) : x \in EqVals, y \in EqVals}

Built(s, r) ==
    /\ objs[s] = None
    /\ last.op = "none"
    /\ ~IsRaise(r)
    /\ objs' = [objs EXCEPT ![s] = r]
    /\ UNCHANGED <<proc, memo, cache, last, chain, threads, mode, caches>>

Build_direct(s) ==
    \E mean \in EqMeans, vol \in EqVols : Built(s, WienerProcess_init(mean, vol))

Build_create2d(s) ==
    \E mean1 \in EqVals, mean2 \in EqVals, sd1 \in EqVals, sd2 \in EqVals, cor \in 0..1 :
        Built(s, create2d(mean1, mean2, sd1, sd2, cor))

Build_createfromcov(s) ==
    \E mean \in EqMeans, cov \in EqCovs : Built(s, createfromcov(mean, cov))

\* a == b, b being a WienerProcess or, when not built, None
Compare ==
    /\ objs.a # None
    /\ last.op = "none"
    /\ \E mismatch \in {"raise", "false"} :
        last' = [op |-> "eq", ret |-> WienerProcess_eq(objs.a, objs.b, mismatch)]
    /\ UNCHANGED <<proc, memo, cache, chain, threads, mode, caches, objs>>

NextEq ==
    \/ \E s \in Slots : Build_direct(s)
    \/ \E s \in Slots : Build_create2d(s)
    \/ \E s \in Slots : Build_createfromcov(s)
    \/ Compare

SpecEq == InitEq /\ [][NextEq]_vars

SameElements(x, y) == x.shape = y.shape /\ x.v = y.v

\* C6: a == b on two WienerProcess objects completes, and is true exactly when
\* their mean and vol are equal element by element
C6_Equality ==
    (last.op = "eq" /\ objs.b # None) =>
        Truth(last.ret) =
            IF SameElements(objs.a.mean, objs.b.mean) /\ SameElements(objs.a.vol, objs.b.vol)
            THEN "True" ELSE "False"

\* C6 holds where mean and vol are both 1 x 1
C6_OneByOne ==
    (last.op = "eq" /\ objs.b # None
        /\ objs.a.processdim = 1 /\ objs.a.noisedim = 1
        /\ objs.b.processdim = 1 /\ objs.b.noisedim = 1) =>
        Truth(last.ret) =
            IF SameElements(objs.a.mean, objs.b.mean) /\ SameElements(objs.a.vol, objs.b.vol)
            THEN "True" ELSE "False"

\* two objects of processdim 2 with the same mean and vol, one from the
\* constructor and one from create2d, whose comparison raises
C6_Raises ==
    /\ last.op = "eq" /\ objs.b # None
    /\ objs.a.processdim = 2
    /\ SameElements(objs.a.mean, objs.b.mean) /\ SameElements(objs.a.vol, objs.b.vol)
    /\ last.ret = Raise("ValueError")

====
